---- MODULE Spec2Model ----
(***************************************************************************)
(* Model of the codex-viz indexer (lib/indexer): the per-file summarizer,  *)
(* the manifest-driven index builder and the process-wide snapshot cache   *)
(* (single-flight, stale-while-revalidate), together with the log corpus   *)
(* and the cache directory they work on.                                   *)
(***************************************************************************)
EXTENDS Integers, Sequences, FiniteSets, TLC

(***************************************************************************)
(* Bounds of the model.                                                    *)
(***************************************************************************)
\* log-file modifications (append, create, delete) the external writer makes
MaxEnvSteps == 1
\* process restarts (module state is lost, the disk is kept)
MaxRestarts == 1
\* getIndex calls made per process, each by a caller of its own
MaxCalls == 2
\* getSessionTimeline calls made, each by a caller of its own
MaxTlCalls == 2
\* line 369, const maxEvents = 5000: the cap of a timeline, scaled down; the
\* loop only compares the number of events with it
maxEvents == 3
\* lines of a log file handed to the summarizer and the extractor on their own
MaxLen == 5

(***************************************************************************)
(* Program constants and encodings of absent values.                       *)
(***************************************************************************)
INDEX_VERSION == 1
\* a schema version written by another release of the program
OTHER_VERSION == INDEX_VERSION + 1
\* null timestamp (toIso's null) and the "unknown" day key
NoTs == -1
\* null / absent string
NoStr == "~"
\* null snapshot, null manifest, missing or unparsable JSON file
Null == [null |-> TRUE]
MsPerSec == 1000
MsPerDay == 86400000

(***************************************************************************)
(* The log corpus: paths, directories, lines.                              *)
(***************************************************************************)
PathA == "d1/a.jsonl"
PathB == "d1/sub/b.jsonl"
Paths == {PathA, PathB}
\* the values CODEX_SESSIONS_DIR takes over the runs; d1/sub lies inside d1
Dirs == {"d1", "d1/sub"}
\* the order in which the recursive walk meets the files
WalkOrder == <<PathA, PathB>>
\* the files below a root directory
Under(root) == IF root = "d1" THEN {PathA, PathB} ELSE {PathB}
\* path.basename(file, ".jsonl")
basename(file) == IF file = PathA THEN "a" ELSE "b"

\* One line of a log file, already seen as the JSON value it holds.  type
\* "garbage" is a line JSON.parse rejects.  timestamp is the raw field:
\* a number >= 0 is a string Date can read (ms), a negative one is not.
Line(type, timestamp, ptype, role, name, call_id, output, pid) ==
    [type |-> type, timestamp |-> timestamp, ptype |-> ptype, role |-> role,
     name |-> name, call_id |-> call_id, output |-> output, pid |-> pid,
     ptimestamp |-> NoTs, cwd |-> IF type = "session_meta" THEN "/tmp" ELSE NoStr,
     originator |-> NoStr, cli_version |-> NoStr,
     content |-> NoStr, arguments |-> NoStr, input |-> NoStr]

LMeta == Line("session_meta", 0, "none", NoStr, NoStr, NoStr, NoStr, "abc")
LUser == Line("response_item", 1000, "message", "user", NoStr, NoStr, NoStr, NoStr)
LCall == Line("response_item", 2000, "function_call", NoStr, "shell", "1", NoStr, NoStr)
LOutErr == Line("response_item", 3000, "function_call_output", NoStr, NoStr, "1", "exit1", NoStr)
LGarbage == Line("garbage", NoTs, "none", NoStr, NoStr, NoStr, NoStr, NoStr)

\* the lines the external writer appends
WriterLines == {LMeta, LUser}

(***************************************************************************)
(* Pure helpers of the indexer.                                            *)
(***************************************************************************)
\* safeJsonParse: the parsed object, or null for a line that is no JSON
safeJsonParse(line) == IF line.type = "garbage" THEN Null ELSE line

\* toIso: null unless the value is a string Date can parse
toIso(ts) == IF ts >= 0 THEN ts ELSE NoTs

\* a ?? b on timestamps
OrTs(a, b) == IF a # NoTs THEN a ELSE b

\* dayKeyFromIso: the date part of the ISO string, or "unknown"
dayKeyFromIso(iso) == IF iso = NoTs THEN NoTs ELSE iso \div MsPerDay

\* typeof v === "string" ? v : null
StrOrNull(v) == v

\* /error|exception|traceback/i.test(out)
MatchesErrorText(out) == out \in {"errtext", "exit0_errtext", "exit1_errtext"}

\* Faulty variant: the exit code of a JSON output is not looked at.
HasNonZeroExitMut(out) == FALSE

\* out.startsWith("{"), JSON.parse succeeds, metadata.exit_code is a number # 0
HasNonZeroExit(out) == out \in {"exit1", "exit1_errtext"}

EmptyMap == [x \in {} |-> 0]

MapGet(h, k) == IF k \in DOMAIN h THEN h[k] ELSE 0

\* tools[name] = (tools[name] ?? 0) + 1
MapInc(h, k) == [x \in DOMAIN h \cup {k} |-> MapGet(h, x) + IF x = k THEN 1 ELSE 0]

\* mergeTools
mergeTools(target, add) ==
    [x \in DOMAIN target \cup DOMAIN add |-> MapGet(target, x) + MapGet(add, x)]

ZeroAgg == [sessions |-> 0, messages |-> 0, toolCalls |-> 0, errors |-> 0]

\* Faulty variant: the bucket is overwritten by the session instead of added to.
mergeDailyMut(target, key, s) ==
    LET new == [sessions |-> 1, messages |-> s.messages,
                toolCalls |-> s.toolCalls, errors |-> s.errors]
    IN [k \in DOMAIN target \cup {key} |-> IF k = key THEN new ELSE target[k]]

\* mergeDaily with delta {sessions: 1, messages, toolCalls, errors} of a summary
mergeDaily(target, key, s) ==
    LET cur == IF key \in DOMAIN target THEN target[key] ELSE ZeroAgg
        new == [sessions |-> cur.sessions + 1,
                messages |-> cur.messages + s.messages,
                toolCalls |-> cur.toolCalls + s.toolCalls,
                errors |-> cur.errors + s.errors]
    IN [k \in DOMAIN target \cup {key} |-> IF k = key THEN new ELSE target[k]]

RECURSIVE MapSum(_)
MapSum(h) ==
    IF DOMAIN h = {} THEN 0
    ELSE LET k == CHOOSE x \in DOMAIN h : TRUE
         IN h[k] + MapSum([x \in DOMAIN h \ {k} |-> h[x]])

RECURSIVE SeqSum(_)
SeqSum(s) == IF s = <<>> THEN 0 ELSE Head(s) + SeqSum(Tail(s))

(***************************************************************************)
(* File Summarizer.                                                        *)
(***************************************************************************)
\* the summary buildFileIndex starts from
EmptySummary(sessionId, file) ==
    [id |-> sessionId, file |-> file, startedAt |-> NoTs, endedAt |-> NoTs,
     durationSec |-> NoTs, cwd |-> NoStr, originator |-> NoStr,
     cliVersion |-> NoStr, messages |-> 0, toolCalls |-> 0, errors |-> 0]

\* summarizeFromMeta: a whole new summary, counters included
summarizeFromMeta(sessionId, file, meta) ==
    [id |-> IF meta.pid # NoStr THEN meta.pid ELSE sessionId,
     file |-> file,
     startedAt |-> OrTs(toIso(meta.timestamp), toIso(meta.ptimestamp)),
     endedAt |-> NoTs, durationSec |-> NoTs,
     cwd |-> StrOrNull(meta.cwd), originator |-> StrOrNull(meta.originator),
     cliVersion |-> StrOrNull(meta.cli_version),
     messages |-> 0, toolCalls |-> 0, errors |-> 0]

\* the loop state of buildFileIndex before the first line
ScanInit(file) ==
    [summary |-> EmptySummary(basename(file), file), tools |-> EmptyMap,
     calls |-> EmptyMap, firstTs |-> NoTs, lastTs |-> NoTs]

\* the session_meta branch of the loop body
OnMeta(st, file, obj) ==
    IF obj.type # "session_meta" THEN st
    ELSE LET s == summarizeFromMeta(basename(file), file, obj)
         IN [st EXCEPT !.summary = s,
                       !.firstTs = IF st.firstTs = NoTs THEN s.startedAt ELSE @]

\* the event_msg branch
OnEvent(st, obj) ==
    IF obj.type = "event_msg" /\ obj.ptype = "turn_aborted"
    THEN [st EXCEPT !.summary.errors = @ + 1]
    ELSE st

\* errors added by one function_call_output / custom_tool_call_output record
OutputErrors(out) ==
    IF out = NoStr THEN 0
    ELSE (IF MatchesErrorText(out) THEN 1 ELSE 0) + (IF HasNonZeroExit(out) THEN 1 ELSE 0)

\* the response_item branch
OnItem(st, obj) ==
    IF obj.type # "response_item" THEN st
    ELSE IF obj.ptype = "message"
    THEN IF obj.role \in {"user", "assistant"}
         THEN [st EXCEPT !.summary.messages = @ + 1]
         ELSE st
    ELSE IF obj.ptype \in {"function_call", "custom_tool_call"}
    THEN LET name == IF obj.name # NoStr THEN obj.name ELSE "unknown"
         IN [st EXCEPT !.summary.toolCalls = @ + 1,
                       !.tools = MapInc(@, name),
                       !.calls = IF obj.call_id # NoStr
                                 THEN [c \in DOMAIN @ \cup {obj.call_id} |->
                                          IF c = obj.call_id THEN name ELSE @[c]]
                                 ELSE @]
    ELSE IF obj.ptype \in {"function_call_output", "custom_tool_call_output"}
    THEN [st EXCEPT !.summary.errors = @ + OutputErrors(obj.output)]
    ELSE st

\* one iteration of the for-await loop of buildFileIndex
ScanLine(st, file, line) ==
    LET obj == safeJsonParse(line)
    IN IF obj = Null THEN st
       ELSE LET ts == toIso(obj.timestamp)
                st1 == IF ts # NoTs
                       THEN [st EXCEPT !.firstTs = IF @ = NoTs THEN ts ELSE @,
                                       !.lastTs = ts]
                       ELSE st
            IN OnItem(OnEvent(OnMeta(st1, file, obj), obj), obj)

RECURSIVE ScanLines(_, _, _)
ScanLines(st, file, lines) ==
    IF lines = <<>> THEN st
    ELSE ScanLines(ScanLine(st, file, Head(lines)), file, Tail(lines))

\* buildFileIndex on a file with the given lines: {sessionId, summary, tools, dailyKey}
buildFileIndex(file, lines) ==
    LET st == ScanLines(ScanInit(file), file, lines)
        startedAt == OrTs(st.summary.startedAt, st.firstTs)
        endedAt == st.lastTs
        dur == IF startedAt # NoTs /\ endedAt # NoTs /\ endedAt >= startedAt
               THEN (endedAt - startedAt) \div MsPerSec
               ELSE NoTs
    IN [sessionId |-> basename(file),
        summary |-> [st.summary EXCEPT !.startedAt = startedAt,
                                       !.endedAt = endedAt,
                                       !.durationSec = dur],
        tools |-> st.tools,
        dailyKey |-> dayKeyFromIso(OrTs(startedAt, st.firstTs))]

(***************************************************************************)
(* Timeline Extractor.                                                     *)
(***************************************************************************)
\* The content of a message payload is "~" (no array), "blank" (fragments that
\* trim to the empty string) or the text the fragments join to.
\* extractMessageText: the joined, trimmed text, or null when it is empty
extractMessageText(payload) ==
    IF payload.content \in {NoStr, "blank"} THEN NoStr ELSE payload.content

\* x ?? "" on strings
OrEmpty(x) == IF x = NoStr THEN "" ELSE x

\* a TimelineEvent; ts NoTs stands for the empty string, name "~" for no name
Event(ts, kind, name, text) == [ts |-> ts, kind |-> kind, name |-> name, text |-> text]

\* Faulty variant of the cap test: the loop stops one event late.
CapReachedMut(n) == n > maxEvents

\* line 414: events.length >= maxEvents
CapReached(n) == n >= maxEvents

\* Faulty variant: the call-id map outlives the extraction that filled it.
TimelineInitMut == [events |-> <<>>, calls |-> ("1" :> "shell"), truncated |-> FALSE]

\* the loop state of buildTimeline before the first line
TimelineInit == [events |-> <<>>, calls |-> EmptyMap, truncated |-> FALSE]

\* lines 379-412: the events one parsed record appends, and the call-id map
TimelineRecord(st, obj) ==
    LET ts == toIso(obj.timestamp)
    IN IF obj.type = "event_msg" /\ obj.ptype = "turn_aborted"
       THEN [st EXCEPT !.events = Append(@, Event(ts, "error", NoStr, "turn_aborted"))]
       ELSE IF obj.type # "response_item" THEN st
       ELSE IF obj.ptype = "message"
       THEN LET text == OrEmpty(extractMessageText(obj))
                kind == IF obj.role \in {"user", "assistant"} THEN obj.role ELSE "other"
            IN [st EXCEPT !.events = Append(@, Event(ts, kind, NoStr, text))]
       ELSE IF obj.ptype \in {"function_call", "custom_tool_call"}
       THEN LET name == IF obj.name # NoStr THEN obj.name ELSE "unknown"
                text == IF obj.arguments # NoStr /\ obj.arguments # ""
                        THEN obj.arguments
                        ELSE IF obj.input # NoStr /\ obj.input # "" THEN obj.input
                        ELSE OrEmpty(obj.arguments)
            IN [st EXCEPT
                   !.events = Append(@, Event(ts, "tool_call", name, text)),
                   !.calls = IF obj.call_id # NoStr /\ obj.call_id # ""
                             THEN [c \in DOMAIN @ \cup {obj.call_id} |->
                                      IF c = obj.call_id THEN name ELSE @[c]]
                             ELSE @]
       ELSE IF obj.ptype \in {"function_call_output", "custom_tool_call_output"}
       THEN LET name == IF obj.name # NoStr THEN obj.name
                        ELSE IF obj.call_id # NoStr /\ obj.call_id \in DOMAIN st.calls
                        THEN st.calls[obj.call_id]
                        ELSE NoStr
            IN [st EXCEPT !.events =
                   Append(@, Event(ts, "tool_output", name, OrEmpty(obj.output)))]
       ELSE st

\* one iteration of the for-await loop of buildTimeline
TimelineLine(st, line) ==
    LET obj == safeJsonParse(line)
    IN IF obj = Null THEN st
       ELSE LET st1 == TimelineRecord(st, obj)
            IN [st1 EXCEPT !.truncated = CapReached(Len(st1.events))]

\* the loop: it is left at the first line after which the cap is reached
RECURSIVE TimelineLines(_, _)
TimelineLines(st, lines) ==
    IF lines = <<>> THEN st
    ELSE LET st1 == TimelineLine(st, Head(lines))
         IN IF st1.truncated THEN st1 ELSE TimelineLines(st1, Tail(lines))

\* buildTimeline on a file with the given lines
buildTimeline(summary, lines) ==
    LET st == TimelineLines(TimelineInit, lines)
    IN [summary |-> summary, truncated |-> st.truncated, events |-> st.events]

(***************************************************************************)
(* State.                                                                  *)
(***************************************************************************)
VARIABLES
    fs,             \* the log corpus: path -> Null (no such file) or [lines, mtimeMs]
    clock,          \* the writer's clock: modifications made so far
    restarts,       \* process restarts so far
    sessionsDir,    \* getSessionsDir() of the running process
    disk,           \* the cache directory: manifest, index and their .tmp files
    inMemoryIndex,  \* module variable: Null or a snapshot
    inFlight,       \* module variable: NoOp or the id of the pending load-or-build
    ops,            \* pending load-or-build operations (the async closure of getIndex)
    builds,         \* running executions of buildOrUpdateIndex
    callers,        \* the getIndex callers
    nCalls,         \* getIndex calls made in this process
    opLog,          \* history: per operation of this process its path and outcome
    bgLog,          \* history: the background rebuild of this process
    last,           \* history: the build that finished last
    prevSnap,       \* history: the snapshot of the preceding build, if it succeeded
    touched,        \* history: files modified since the latest build started / finished
    tl,             \* the getSessionTimeline calls: call -> position and locals
    tcache,         \* the timeline cache directory: session id -> its file and .tmp
    pure            \* input and result of a function applied outside any process

vars == <<fs, clock, restarts, sessionsDir, disk, inMemoryIndex, inFlight, ops,
          builds, callers, nCalls, opLog, bgLog, last, prevSnap, touched,
          tl, tcache, pure>>

\* what the Snapshot Cache and the Index Builder never touch
TimelineVars == <<tl, tcache, pure>>

Callers == 1..MaxCalls
NoOp == 0
\* new Date() of build id: later builds and later processes read a later time
Now(id) == restarts * (MaxCalls + 1) + id
Failure == [failed |-> TRUE]

\* fs.Stats of an existing file
Stat(f) == [mtimeMs |-> fs[f].mtimeMs, size |-> Len(fs[f].lines)]

\* the content of a file that was opened for writing and not yet written in
\* full: no JSON document
Partial == [partial |-> TRUE]

\* readJsonFile: the parsed content, null when the file is missing or no JSON
readJsonFile(content) == IF content = Partial THEN Null ELSE content

\* listJsonlFiles(root): the existing files below root, in walk order
listJsonlFiles(root) ==
    SelectSeq(WalkOrder, LAMBDA f : f \in Under(root) /\ fs[f] # Null)

(***************************************************************************)
(* Index Builder: the decisions of buildOrUpdateIndex.                     *)
(***************************************************************************)
\* Faulty variants of the two decisions below.
\* the recorded source directory is not compared
ManifestReusableMut(prevManifest, dir) ==
    prevManifest # Null /\ prevManifest.version = INDEX_VERSION
\* the recorded size is compared with the live modification time
EntryFreshTypo(files, file, st) ==
    /\ file \in DOMAIN files
    /\ files[file].mtimeMs = st.mtimeMs
    /\ files[file].size = st.mtimeMs
\* an entry is reused whenever there is one
EntryFreshAlways(files, file, st) == file \in DOMAIN files

\* line 239: the persisted manifest is kept only for the same version and directory
ManifestReusable(prevManifest, dir) ==
    /\ prevManifest # Null
    /\ prevManifest.version = INDEX_VERSION
    /\ prevManifest.sessionsDir = dir

\* line 256: the manifest entry is reused when both fingerprints agree
EntryFresh(files, file, st) ==
    /\ file \in DOMAIN files
    /\ files[file].mtimeMs = st.mtimeMs
    /\ files[file].size = st.size

\* lines 257-264 / 269-276: one session added to the aggregates
AddSession(b, summary, tools, dailyKey) ==
    [b EXCEPT !.sessions = Append(@, summary),
              !.tools = mergeTools(@, tools),
              !.daily = mergeDaily(@, dailyKey, summary)]

\* lines 278-285: the manifest entry written after a re-summarization
ManifestEntry(st, built) ==
    [mtimeMs |-> st.mtimeMs, size |-> st.size, sessionId |-> built.sessionId,
     summary |-> built.summary, tools |-> built.tools, dailyKey |-> built.dailyKey]

\* lines 289-291: entries of files that were not discovered are deleted
Prune(files, found) ==
    [f \in {g \in DOMAIN files : \E k \in 1..Len(found) : found[k] = g} |-> files[f]]

Counts(sessions, field) == SeqSum([k \in 1..Len(sessions) |-> sessions[k][field]])

\* lines 293-299
Totals(b) ==
    [files |-> Len(b.files), sessions |-> Len(b.sessions),
     messages |-> Counts(b.sessions, "messages"),
     toolCalls |-> Counts(b.sessions, "toolCalls"),
     errors |-> Counts(b.sessions, "errors")]

\* lines 301-310
Snapshot(b) ==
    [version |-> INDEX_VERSION, generatedAt |-> Now(b.id), sessionsDir |-> b.dir,
     cacheDir |-> "cache", totals |-> Totals(b), tools |-> b.tools,
     daily |-> b.daily, sessions |-> b.sessions]

\* Faulty variant: the snapshot is persisted at once, the manifest is not.
AssembleMut(b) ==
    LET pruned == [b.manifest EXCEPT !.files = Prune(@, b.files)]
    IN [b EXCEPT !.manifest = pruned, !.snapshot = Snapshot(b), !.pc = "writeIndex"]

\* the end of the file loop: prune, totals, snapshot, then writeFile(manifest.tmp)
Assemble(b) ==
    LET pruned == [b.manifest EXCEPT !.files = Prune(@, b.files)]
    IN [b EXCEPT !.manifest = pruned, !.snapshot = Snapshot(b), !.pc = "writeManifest"]

\* after file number b.i: the next file, or the end of the loop
NextFile(b) ==
    IF b.i < Len(b.files) THEN [b EXCEPT !.i = @ + 1, !.pc = "stat"] ELSE Assemble(b)

\* a fresh execution of buildOrUpdateIndex, suspended in ensureDir
NewBuild(id, kind, o) ==
    [id |-> id, kind |-> kind, op |-> o, pc |-> "mkdir", dir |-> sessionsDir,
     manifest |-> Null, seen |-> Null, files |-> <<>>, i |-> 0, st |-> Null,
     sessions |-> <<>>, tools |-> EmptyMap, daily |-> EmptyMap, snapshot |-> Null,
     reread |-> {}, statOk |-> {}, lost |-> {}, prev |-> prevSnap,
     changed |-> touched.start, changedAfter |-> touched.end,
     before |-> [manifest |-> disk.manifest, index |-> disk.index]]

(***************************************************************************)
(* Snapshot Cache: the decisions of getIndex.                              *)
(***************************************************************************)
\* Faulty variants of the decisions below, each a slip the properties must catch.
\* the snapshot in memory is never looked at
HasSnapshotMut == FALSE
\* the pending operation is never joined
JoinsInFlightMut == FALSE
\* any parsable persisted snapshot is served, whatever its version
CachedUsableMut(cached) == cached # Null
\* the background rebuild's result is dropped
BgResolveMut(mem, fresh) == mem
\* a failed background rebuild clears the snapshot in memory
BgRejectMut(mem) == Null

\* line 318: if (inMemoryIndex)
HasSnapshot == inMemoryIndex # Null

\* line 318: return inMemoryIndex
MemoryResult == inMemoryIndex

\* line 319: if (inFlight)
JoinsInFlight == inFlight # NoOp

\* line 325: cached?.version === INDEX_VERSION
CachedUsable(cached) == cached # Null /\ cached.version = INDEX_VERSION

\* line 330: .then((fresh) => { inMemoryIndex = fresh })
BgResolve(mem, fresh) == fresh

\* line 332: .catch(() => {})
BgReject(mem) == mem

\* Faulty variant: the handler that clears inFlight is missing.
FinallyMut(pending) == pending

\* lines 338-340: .finally(() => { inFlight = null })
Finally(pending) == NoOp

\* Faulty variant: the result of the synchronous rebuild is returned and not kept.
SyncResolveMut(mem, fresh) == mem

\* line 336: inMemoryIndex = fresh
SyncResolve(mem, fresh) == fresh

Remove(f, x) == [k \in DOMAIN f \ {x} |-> f[k]]

IdleCaller == [pc |-> "idle", op |-> NoOp, via |-> "none", res |-> Null]

\* the callers awaiting operation o receive its outcome
SettledCallers(cs, o, outcome) ==
    [c \in Callers |->
        IF cs[c].pc = "waiting" /\ cs[c].op = o
        THEN [cs[c] EXCEPT !.pc = "done", !.res = outcome]
        ELSE cs[c]]

(***************************************************************************)
(* getIndex: a call, up to its first suspension.                           *)
(***************************************************************************)
GetIndex(c) ==
    /\ c = nCalls + 1
    /\ nCalls' = c
    /\ IF HasSnapshot
       THEN /\ callers' = [callers EXCEPT ![c] =
                    [pc |-> "done", op |-> NoOp, via |-> "memory", res |-> MemoryResult]]
            /\ UNCHANGED <<inFlight, ops, opLog>>
       ELSE IF JoinsInFlight
       THEN /\ callers' = [callers EXCEPT ![c] =
                    [pc |-> "waiting", op |-> inFlight, via |-> "join", res |-> Null]]
            /\ UNCHANGED <<inFlight, ops, opLog>>
       ELSE /\ inFlight' = nCalls'
            /\ ops' = ops @@ (nCalls' :> [pc |-> "readIndex"])
            /\ opLog' = opLog @@ (nCalls' :> [path |-> "pending", cached |-> Null,
                                              outcome |-> Null])
            /\ callers' = [callers EXCEPT ![c] =
                    [pc |-> "waiting", op |-> nCalls', via |-> "start", res |-> Null]]
    /\ UNCHANGED <<fs, clock, restarts, sessionsDir, disk, inMemoryIndex, builds,
                   bgLog, last, prevSnap, touched, TimelineVars>>

\* readJsonFile(indexPath) completes inside the pending operation: either the
\* persisted snapshot is served and a background rebuild starts (the operation
\* settles, .finally clears inFlight), or a synchronous rebuild starts
IndexRead(o) ==
    /\ o \in DOMAIN ops
    /\ ops[o].pc = "readIndex"
    /\ LET cached == readJsonFile(disk.index)
       IN IF CachedUsable(cached)
          THEN /\ inMemoryIndex' = cached
               /\ builds' = builds @@ (o :> NewBuild(o, "bg", o))
               /\ bgLog' = [started |-> bgLog.started + 1, stale |-> cached,
                            result |-> Null]
               /\ inFlight' = Finally(inFlight)
               /\ ops' = Remove(ops, o)
               /\ callers' = SettledCallers(callers, o, cached)
               /\ opLog' = [opLog EXCEPT ![o] = [path |-> "stale", cached |-> cached,
                                                 outcome |-> cached]]
          ELSE /\ builds' = builds @@ (o :> NewBuild(o, "sync", o))
               /\ ops' = [ops EXCEPT ![o].pc = "building"]
               /\ opLog' = [opLog EXCEPT ![o].path = "sync", ![o].cached = cached]
               /\ UNCHANGED <<inMemoryIndex, bgLog, inFlight, callers>>
    /\ prevSnap' = Null
    /\ touched' = [touched EXCEPT !.start = {}]
    /\ UNCHANGED <<fs, clock, restarts, sessionsDir, disk, nCalls, last, TimelineVars>>

(***************************************************************************)
(* buildOrUpdateIndex: one action per completed file-system operation.     *)
(***************************************************************************)
\* the build settles: the awaiting closure of getIndex (sync) or the
\* .then/.catch handlers (background) run, then .finally and the callers
Finish(b, outcome) ==
    /\ builds' = Remove(builds, b.id)
    /\ last' = [ok |-> outcome # Failure, id |-> b.id, kind |-> b.kind, dir |-> b.dir,
                snapshot |-> outcome,
                manifest |-> IF outcome # Failure THEN b.manifest ELSE Null,
                reread |-> b.reread, statOk |-> b.statOk, seen |-> b.seen,
                pc |-> b.pc, lost |-> b.lost,
                prev |-> b.prev, changed |-> b.changed, changedAfter |-> b.changedAfter,
                during |-> touched.start]
    /\ prevSnap' = IF outcome # Failure THEN outcome ELSE prevSnap
    /\ touched' = [touched EXCEPT !.end = {}]
    /\ IF b.kind = "sync"
       THEN /\ inMemoryIndex' = IF outcome # Failure
                                THEN SyncResolve(inMemoryIndex, outcome)
                                ELSE inMemoryIndex
            /\ inFlight' = Finally(inFlight)
            /\ ops' = Remove(ops, b.op)
            /\ callers' = SettledCallers(callers, b.op, outcome)
            /\ opLog' = [opLog EXCEPT ![b.op].outcome = outcome]
            /\ UNCHANGED bgLog
       ELSE /\ inMemoryIndex' = IF outcome # Failure
                                THEN BgResolve(inMemoryIndex, outcome)
                                ELSE BgReject(inMemoryIndex)
            /\ bgLog' = [bgLog EXCEPT !.result = outcome]
            /\ UNCHANGED <<inFlight, ops, callers, opLog>>

\* the build goes on
Continue(b2) ==
    /\ builds' = [builds EXCEPT ![b2.id] = b2]
    /\ UNCHANGED <<inMemoryIndex, inFlight, ops, callers, opLog, bgLog, last, prevSnap,
                   touched>>

BuildFrame == UNCHANGED <<fs, clock, restarts, sessionsDir, nCalls, TimelineVars>>

\* lines 229-230: ensureDir(cacheDir), ensureDir(cacheDir/session)
BuildMkdir(id, ok) ==
    /\ id \in DOMAIN builds
    /\ builds[id].pc = "mkdir"
    /\ IF ok THEN Continue([builds[id] EXCEPT !.pc = "readManifest"])
       ELSE Finish(builds[id], Failure)
    /\ UNCHANGED disk
    /\ BuildFrame

\* lines 235-240
BuildReadManifest(id) ==
    /\ id \in DOMAIN builds
    /\ builds[id].pc = "readManifest"
    /\ LET b == builds[id]
           prevManifest == readJsonFile(disk.manifest)
           keep == ManifestReusable(prevManifest, b.dir)
       IN Continue([b EXCEPT
              !.manifest = [version |-> INDEX_VERSION, sessionsDir |-> b.dir,
                            files |-> IF keep THEN prevManifest.files ELSE EmptyMap],
              !.seen = IF prevManifest = Null THEN Null
                       ELSE [version |-> prevManifest.version,
                             sessionsDir |-> prevManifest.sessionsDir],
              !.pc = "list"])
    /\ UNCHANGED disk
    /\ BuildFrame

\* line 242
BuildList(id) ==
    /\ id \in DOMAIN builds
    /\ builds[id].pc = "list"
    /\ Continue(NextFile([builds[id] EXCEPT !.files = listJsonlFiles(builds[id].dir)]))
    /\ UNCHANGED disk
    /\ BuildFrame

\* lines 248-266: stat; a vanished file is skipped, an unchanged one reused
BuildStat(id) ==
    /\ id \in DOMAIN builds
    /\ builds[id].pc = "stat"
    /\ LET b == builds[id]
           file == b.files[b.i]
       IN IF fs[file] = Null
          THEN Continue(NextFile([b EXCEPT !.lost = @ \cup {file}]))
          ELSE LET st == Stat(file)
                   b1 == [b EXCEPT !.statOk = @ \cup {file}]
               IN IF EntryFresh(b.manifest.files, file, st)
                  THEN LET prev == b.manifest.files[file]
                       IN Continue(NextFile(
                              AddSession(b1, prev.summary, prev.tools, prev.dailyKey)))
                  ELSE Continue([b1 EXCEPT !.st = st, !.pc = "read"])
    /\ UNCHANGED disk
    /\ BuildFrame

\* lines 268-285: buildFileIndex reads the file; opening a vanished file throws
BuildRead(id) ==
    /\ id \in DOMAIN builds
    /\ builds[id].pc = "read"
    /\ LET b == builds[id]
           file == b.files[b.i]
       IN IF fs[file] = Null
          THEN Finish([b EXCEPT !.lost = @ \cup {file}], Failure)
          ELSE LET built == buildFileIndex(file, fs[file].lines)
                   b1 == AddSession(b, built.summary, built.tools, built.dailyKey)
                   b2 == [b1 EXCEPT
                            !.manifest.files =
                                [f \in DOMAIN @ \cup {file} |->
                                    IF f = file THEN ManifestEntry(b.st, built) ELSE @[f]],
                            !.reread = @ \cup {file}]
               IN Continue(NextFile(b2))
    /\ UNCHANGED disk
    /\ BuildFrame

\* line 312, writeJsonFile: writeFile(manifest.json.tmp)
BuildWriteManifest(id) ==
    /\ id \in DOMAIN builds
    /\ builds[id].pc = "writeManifest"
    /\ disk' = [disk EXCEPT !.manifestTmp = builds[id].manifest]
    /\ Continue([builds[id] EXCEPT !.pc = "renameManifest"])
    /\ BuildFrame

\* line 312, writeJsonFile: rename(manifest.json.tmp, manifest.json)
BuildRenameManifest(id) ==
    /\ id \in DOMAIN builds
    /\ builds[id].pc = "renameManifest"
    /\ IF disk.manifestTmp = Null
       THEN /\ Finish(builds[id], Failure)
            /\ UNCHANGED disk
       ELSE /\ disk' = [disk EXCEPT !.manifest = disk.manifestTmp, !.manifestTmp = Null]
            /\ Continue([builds[id] EXCEPT !.pc = "writeIndex"])
    /\ BuildFrame

\* line 313, writeJsonFile: writeFile(index.json.tmp); the write may fail (disk full)
BuildWriteIndex(id, ok) ==
    /\ id \in DOMAIN builds
    /\ builds[id].pc = "writeIndex"
    /\ IF ok
       THEN /\ disk' = [disk EXCEPT !.indexTmp = builds[id].snapshot]
            /\ Continue([builds[id] EXCEPT !.pc = "renameIndex"])
       ELSE /\ Finish(builds[id], Failure)
            /\ UNCHANGED disk
    /\ BuildFrame

\* line 313-314, writeJsonFile: rename(index.json.tmp, index.json); return snapshot
BuildRenameIndex(id) ==
    /\ id \in DOMAIN builds
    /\ builds[id].pc = "renameIndex"
    /\ IF disk.indexTmp = Null
       THEN /\ Finish(builds[id], Failure)
            /\ UNCHANGED disk
       ELSE /\ disk' = [disk EXCEPT !.index = disk.indexTmp, !.indexTmp = Null]
            /\ Finish(builds[id], builds[id].snapshot)
    /\ BuildFrame

(***************************************************************************)
(* Environment: the external writer of the logs, and process restarts.     *)
(***************************************************************************)
ProcFrame == UNCHANGED <<restarts, sessionsDir, disk, inMemoryIndex, inFlight, ops,
                         builds, callers, nCalls, opLog, bgLog, last, prevSnap,
                         TimelineVars>>

WriterAppend(f, l) ==
    /\ clock < MaxEnvSteps
    /\ fs[f] # Null
    /\ clock' = clock + 1
    /\ fs' = [fs EXCEPT ![f] = [lines |-> Append(@.lines, l), mtimeMs |-> clock + 1]]
    /\ touched' = [start |-> touched.start \cup {f}, end |-> touched.end \cup {f}]
    /\ ProcFrame

WriterDelete(f) ==
    /\ clock < MaxEnvSteps
    /\ fs[f] # Null
    /\ clock' = clock + 1
    /\ fs' = [fs EXCEPT ![f] = Null]
    /\ touched' = [start |-> touched.start \cup {f}, end |-> touched.end \cup {f}]
    /\ ProcFrame

NoBuild == [ok |-> FALSE, id |-> 0, kind |-> "none", dir |-> "d1", snapshot |-> Failure,
            manifest |-> Null, reread |-> {}, statOk |-> {}, seen |-> Null,
            pc |-> "none", lost |-> {},
            prev |-> Null, changed |-> {}, changedAfter |-> {}, during |-> {}]

NoBg == [started |-> 0, stale |-> Null, result |-> Null]

\* the process is restarted between two requests: the module variables start
\* over, the files stay
Restart ==
    /\ restarts < MaxRestarts
    /\ DOMAIN ops = {}
    /\ DOMAIN builds = {}
    /\ restarts' = restarts + 1
    /\ inMemoryIndex' = Null
    /\ inFlight' = NoOp
    /\ ops' = EmptyMap
    /\ builds' = EmptyMap
    /\ callers' = [c \in Callers |-> IdleCaller]
    /\ nCalls' = 0
    /\ opLog' = EmptyMap
    /\ bgLog' = NoBg
    /\ last' = NoBuild
    /\ UNCHANGED <<fs, clock, sessionsDir, disk, prevSnap, touched, TimelineVars>>

(***************************************************************************)
(* Initial states.                                                         *)
(***************************************************************************)
EmptyCache == [manifest |-> Null, manifestTmp |-> Null, index |-> Null, indexTmp |-> Null]

\* the corpus the process starts with
InitLines(f) == IF f = PathA THEN <<LMeta>> ELSE <<LCall>>

\* what an earlier run over the files of root left in the cache directory, under
\* the given schema version: the entries carry the fingerprints of the corpus
EarlierEntry(f) ==
    ManifestEntry([mtimeMs |-> 0, size |-> Len(InitLines(f))],
                  buildFileIndex(f, InitLines(f)))

RECURSIVE EarlierBuild(_, _)
EarlierBuild(b, k) ==
    IF k > Len(b.files) THEN b
    ELSE LET e == EarlierEntry(b.files[k])
         IN EarlierBuild(AddSession(b, e.summary, e.tools, e.dailyKey), k + 1)

EarlierCache(version, root) ==
    LET found == SelectSeq(WalkOrder, LAMBDA f : f \in Under(root))
        b == EarlierBuild([id |-> 0, dir |-> root, files |-> found, sessions |-> <<>>,
                           tools |-> EmptyMap, daily |-> EmptyMap], 1)
    IN [manifest |-> [version |-> version, sessionsDir |-> root,
                      files |-> [f \in Under(root) |-> EarlierEntry(f)]],
        manifestTmp |-> Null,
        index |-> [Snapshot(b) EXCEPT !.version = version, !.generatedAt = 0],
        indexTmp |-> Null]

\* left by another release of the program, run over the same directory
OtherVersionCache == EarlierCache(OTHER_VERSION, "d1")

\* left by this release, run with CODEX_SESSIONS_DIR = d1/sub
OtherDirCache == EarlierCache(INDEX_VERSION, "d1/sub")

Init ==
    /\ fs = [f \in Paths |-> [lines |-> InitLines(f), mtimeMs |-> 0]]
    /\ clock = 0
    /\ restarts = 0
    /\ sessionsDir = "d1"
    /\ disk \in {EmptyCache, OtherVersionCache, OtherDirCache}
    /\ inMemoryIndex = Null
    /\ inFlight = NoOp
    /\ ops = EmptyMap
    /\ builds = EmptyMap
    /\ callers = [c \in Callers |-> IdleCaller]
    /\ nCalls = 0
    /\ opLog = EmptyMap
    /\ bgLog = NoBg
    /\ last = NoBuild
    /\ prevSnap = Null
    /\ touched = [start |-> {}, end |-> {}]
    /\ tl = EmptyMap
    /\ tcache = EmptyMap
    /\ pure = Null

Next ==
    \/ \E c \in Callers : GetIndex(c)
    \/ \E o \in DOMAIN ops : IndexRead(o)
    \/ \E id \in DOMAIN builds, ok \in BOOLEAN : BuildMkdir(id, ok)
    \/ \E id \in DOMAIN builds : BuildReadManifest(id)
    \/ \E id \in DOMAIN builds : BuildList(id)
    \/ \E id \in DOMAIN builds : BuildStat(id)
    \/ \E id \in DOMAIN builds : BuildRead(id)
    \/ \E id \in DOMAIN builds : BuildWriteManifest(id)
    \/ \E id \in DOMAIN builds : BuildRenameManifest(id)
    \/ \E id \in DOMAIN builds, ok \in BOOLEAN : BuildWriteIndex(id, ok)
    \/ \E id \in DOMAIN builds : BuildRenameIndex(id)
    \/ \E f \in Paths, l \in WriterLines : WriterAppend(f, l)
    \/ \E f \in Paths : WriterDelete(f)
    \/ Restart

Spec == Init /\ [][Next]_vars

(***************************************************************************)
(* The summarizer, the extractor and the aggregation applied on their own  *)
(* to log files drawn from a bounded set.                                  *)
(***************************************************************************)
IndexerVars == <<fs, clock, restarts, sessionsDir, disk, inMemoryIndex, inFlight, ops,
                 builds, callers, nCalls, opLog, bgLog, last, prevSnap, touched>>

\* no getIndex call has been made, no build has run
Idle ==
    /\ clock = 0
    /\ restarts = 0
    /\ sessionsDir = "d1"
    /\ inFlight = NoOp
    /\ ops = EmptyMap
    /\ builds = EmptyMap
    /\ callers = [c \in Callers |-> IdleCaller]
    /\ nCalls = 0
    /\ opLog = EmptyMap
    /\ bgLog = NoBg
    /\ last = NoBuild
    /\ prevSnap = Null
    /\ touched = [start |-> {}, end |-> {}]

LAbort == Line("event_msg", 4000, "turn_aborted", NoStr, NoStr, NoStr, NoStr, NoStr)

\* the records a drawn file is made of
PureLines == {LMeta, LUser, LCall, LOutErr, LGarbage, LAbort}

\* the record with its timestamp moved by t0
Shift(line, t0) == [line EXCEPT !.timestamp = @ + t0]

\* the instants T0 of the worked example: the epoch, two seconds before
\* midnight, and a later day
ExampleStarts == {0, MsPerDay - 2 * MsPerSec, 3 * MsPerDay + 5 * MsPerSec}

\* metadata (id abc) at T0, a user message at T0+1s, a call of shell with
\* call id 1 at T0+2s, its output with metadata.exit_code = 1 at T0+3s
Example(t0) == <<Shift(LMeta, t0), Shift(LUser, t0), Shift(LCall, t0), Shift(LOutErr, t0)>>

\* all files of at most n records
RECURSIVE FilesUpTo(_)
FilesUpTo(n) ==
    IF n = 0 THEN {<<>>}
    ELSE LET shorter == FilesUpTo(n - 1)
         IN shorter \cup {Append(f, l) : f \in shorter, l \in PureLines}

\* all files of at most n records taken from ls
RECURSIVE FilesOver(_, _)
FilesOver(ls, n) ==
    IF n = 0 THEN {<<>>}
    ELSE LET shorter == FilesOver(ls, n - 1)
         IN shorter \cup {Append(f, l) : f \in shorter, l \in ls}

\* outputs of a tool call: error text only, error text in a JSON object whose
\* metadata.exit_code is 1, a JSON object with exit code 0, the empty string
LOutText == [LOutErr EXCEPT !.output = "errtext"]
LOutBoth == [LOutErr EXCEPT !.output = "exit1_errtext"]
LOutOk == [LOutErr EXCEPT !.output = "exit0"]
LOutEmpty == [LOutErr EXCEPT !.output = ""]

\* the records of a file of tool calls and their outputs
OutputLines == {LCall, LOutErr, LOutText, LOutBoth, LOutOk, LOutEmpty}

\* metadata whose only timestamp is the payload's, metadata with no
\* timestamp, metadata of the next day; a message with no timestamp, a message
\* half a second after a full second
LMetaP == [LMeta EXCEPT !.timestamp = NoTs, !.ptimestamp = 500]
LMetaNone == [LMeta EXCEPT !.timestamp = NoTs]
LMetaLate == Shift(LMeta, MsPerDay + 500)
LUserNoTs == [LUser EXCEPT !.timestamp = NoTs]
LUserOdd == Shift(LUser, 1500)

\* the records of a file whose timestamps matter
TimestampLines == {LMeta, LMetaP, LMetaNone, LMetaLate, LUser, LUserNoTs, LUserOdd}

\* a second call under call id 1, a call with no name under call id 2, a call
\* whose call id is the empty string; outputs under call id 2, under the empty
\* call id, with no call id, with a name of their own
LCallB == [LCall EXCEPT !.name = "apply"]
LCallAnon == [LCall EXCEPT !.name = NoStr, !.call_id = "2"]
LCallNoId == [LCall EXCEPT !.call_id = ""]
LOut2 == [LOutErr EXCEPT !.call_id = "2"]
LOutNoId == [LOutErr EXCEPT !.call_id = ""]
LOutNamed == [LOutErr EXCEPT !.name = "own"]

\* the records of a file of calls and outputs that are to be correlated
CallLines == {LCall, LCallB, LCallAnon, LCallNoId, LOutErr, LOut2, LOutNoId, LOutNamed}

\* messages whose content is an array of fragments: of white space only, and
\* of the text "hello"
LUserBlank == [LUser EXCEPT !.content = "blank"]
LUserText == [LUser EXCEPT !.content = "hello"]
LSystemText == [LUserText EXCEPT !.role = "system"]

\* the records of a file of messages
MessageLines == {LUser, LUserBlank, LUserText, LSystemText}

DrawnFiles == FilesUpTo(MaxLen) \cup {Example(t0) : t0 \in ExampleStarts}

\* the files of at most n records of one kind of content: tool outputs,
\* timestamps, calls with their outputs, messages
TopicFiles(n) ==
    FilesOver(OutputLines, n) \cup FilesOver(TimestampLines, n)
        \cup FilesOver(CallLines, n) \cup FilesOver(MessageLines, n)

\* files of a corpus of two: started on day 0, on day 1, on an unknown day
CorpusFiles ==
    {<<>>, <<LGarbage>>, <<LMeta>>, <<LCall, LMeta>>, <<LUser, LAbort>>,
     <<Shift(LUser, MsPerDay)>>, <<Shift(LCall, MsPerDay), LOutErr>>, Example(0),
     <<LOutErr>>}

\* lines 247-310 over a corpus whose content is given, with an empty manifest:
\* every file is summarized and added to the aggregates, then the snapshot
RECURSIVE SummarizeAll(_, _, _)
SummarizeAll(b, content, k) ==
    IF k > Len(b.files) THEN b
    ELSE LET built == buildFileIndex(b.files[k], content[b.files[k]])
         IN SummarizeAll(AddSession(b, built.summary, built.tools, built.dailyKey),
                         content, k + 1)

BuildOver(content) ==
    Snapshot(SummarizeAll([id |-> 0, dir |-> "d1", files |-> WalkOrder,
                           sessions |-> <<>>, tools |-> EmptyMap, daily |-> EmptyMap],
                          content, 1))

PureInit ==
    /\ Idle
    /\ fs = [f \in Paths |-> [lines |-> InitLines(f), mtimeMs |-> 0]]
    /\ disk = EmptyCache
    /\ inMemoryIndex = Null
    /\ tl = EmptyMap
    /\ tcache = EmptyMap
    /\ \/ \E lines \in DrawnFiles \cup TopicFiles(MaxLen - 1) :
             pure = [pc |-> "file", lines |-> lines]
       \/ \E a \in CorpusFiles, b \in CorpusFiles :
             pure = [pc |-> "corpus", content |-> (PathA :> a) @@ (PathB :> b)]

\* buildFileIndex and buildTimeline read the drawn file
ApplyToFile ==
    /\ pure.pc = "file"
    /\ LET built == buildFileIndex(PathA, pure.lines)
       IN pure' = [pc |-> "summarized", lines |-> pure.lines, built |-> built,
                   timeline |-> buildTimeline(built.summary, pure.lines)]
    /\ UNCHANGED <<IndexerVars, tl, tcache>>

\* the files of the drawn corpus are summarized and aggregated
ApplyToCorpus ==
    /\ pure.pc = "corpus"
    /\ pure' = [pc |-> "aggregated", content |-> pure.content,
                snapshot |-> BuildOver(pure.content),
                timelines |-> [f \in Paths |-> buildTimeline(Null, pure.content[f])]]
    /\ UNCHANGED <<IndexerVars, tl, tcache>>

PureNext == ApplyToFile \/ ApplyToCorpus

PureSpec == PureInit /\ [][PureNext]_vars

(***************************************************************************)
(* Timeline Cache: getSessionTimeline, one action per completed            *)
(* file-system operation, next to the writer of the logs.                  *)
(***************************************************************************)
TlCalls == 1..MaxTlCalls

\* the session ids requested: a metadata id, a file name stem, an unknown id
SessionIds == {"abc", "b", "zzz"}

\* a metadata record that carries the id b, the name stem of the other file
LMetaB == [LMeta EXCEPT !.pid = "b"]

\* Faulty variant of the decision below: an entry is served whatever
\* fingerprint it records
CacheValidMut(cached, st) == cached # Null

\* line 425: index.sessions.find((s) => s.id === sessionId) ?? null
FindSession(index, id) ==
    LET hits == {k \in 1..Len(index.sessions) : index.sessions[k].id = id}
    IN IF hits = {} THEN Null
       ELSE index.sessions[CHOOSE k \in hits : \A j \in hits : k <= j]

\* line 351: files.find((f) => path.basename(f, ".jsonl") === sessionId)
ExactFile(files, id) ==
    LET hits == {k \in 1..Len(files) : basename(files[k]) = id}
    IN IF hits = {} THEN NoStr ELSE files[CHOOSE k \in hits : \A j \in hits : k <= j]

\* line 359: obj?.type === "session_meta" && obj?.payload?.id === sessionId
SlowMatch(line, id) ==
    LET obj == safeJsonParse(line)
    IN obj # Null /\ obj.type = "session_meta" /\ obj.pid = id

\* line 452: cached && cached.fileMtimeMs === st.mtimeMs && cached.fileSize === st.size
CacheValid(cached, st) ==
    /\ cached # Null
    /\ cached.fileMtimeMs = st.mtimeMs
    /\ cached.fileSize = st.size

\* lines 428-444: the response for an id no file is found for
NotFoundResponse(id, now) ==
    [summary |-> [EmptySummary(id, "") EXCEPT !.errors = 1],
     truncated |-> FALSE,
     events |-> <<Event(now, "error", NoStr, "session file not found")>>]

\* line 453: the response made of a cache entry
FromCache(cached) ==
    [summary |-> cached.summary, truncated |-> cached.truncated, events |-> cached.events]

\* line 459: { ...built, fileMtimeMs: st.mtimeMs, fileSize: st.size }
CacheEntry(built, st) ==
    [summary |-> built.summary, truncated |-> built.truncated, events |-> built.events,
     fileMtimeMs |-> st.mtimeMs, fileSize |-> st.size]

\* the cache directory holds neither the file of a session nor its .tmp
NoEntry == [final |-> Null, tmp |-> Null]

\* a call that was not made yet
IdleTl ==
    [pc |-> "idle", id |-> NoStr, session |-> Null, file |-> NoStr, files |-> <<>>,
     i |-> 0, st |-> Null, atStat |-> <<>>, atRead |-> <<>>, cachedRaw |-> Null,
     summary |-> Null,
     built |-> Null, fd |-> "none", res |-> Null, via |-> "none", at |-> "none",
     nomatch |-> FALSE, gone |-> FALSE, wrote |-> Null, alone |-> FALSE,
     kept |-> TRUE]

\* a log file exists whose name stem or first-line metadata id is id, or that
\* the snapshot in memory lists under id
LogFileExists(id) ==
    \E f \in Paths :
        /\ fs[f] # Null
        /\ \/ basename(f) = id
           \/ Len(fs[f].lines) > 0 /\ SlowMatch(fs[f].lines[1], id)
           \/ \E k \in 1..Len(inMemoryIndex.sessions) :
                 inMemoryIndex.sessions[k].id = id /\ inMemoryIndex.sessions[k].file = f

\* id matches no session of the snapshot, no name stem, no first-line metadata id
MatchesNothing(id) ==
    /\ FindSession(inMemoryIndex, id) = Null
    /\ \A f \in Paths :
          /\ basename(f) # id
          /\ fs[f] # Null /\ Len(fs[f].lines) > 0 => ~SlowMatch(fs[f].lines[1], id)

\* the call that ended last is kept under this key, as history
LastEnded == 0

\* a call that has ended
DoneTl == [IdleTl EXCEPT !.pc = "done"]

\* call c ends: it returns a response or raises
Ended(c, res, via) ==
    [tl EXCEPT ![c] = DoneTl,
               ![LastEnded] = [tl[c] EXCEPT !.pc = "ended", !.res = res, !.via = via,
                                            !.at = tl[c].pc, !.fd = "none"]]

TlFrame == UNCHANGED <<IndexerVars, pure>>

\* lines 423-426: getIndex returns the snapshot in memory; the session is looked
\* up in it, and the call suspends in the listing or in fsp.stat
TlCall(c, id) ==
    /\ tl[c].pc = "idle"
    /\ \A d \in TlCalls : d < c => tl[d].pc # "idle"
    /\ HasSnapshot
    /\ LET session == FindSession(MemoryResult, id)
       IN tl' = [tl EXCEPT ![c] =
              [IdleTl EXCEPT !.id = id, !.session = session,
                             !.file = IF session # Null THEN session.file ELSE NoStr,
                             !.pc = IF session # Null THEN "stat" ELSE "list",
                             !.nomatch = MatchesNothing(id),
                             !.gone = ~LogFileExists(id)]]
    /\ UNCHANGED tcache
    /\ TlFrame

\* lines 349-352, findFileForSession: the listing, then the exact match
TlList(c) ==
    /\ tl[c].pc = "list"
    /\ LET files == listJsonlFiles(sessionsDir)
           exact == ExactFile(files, tl[c].id)
       IN tl' = IF exact # NoStr
                THEN [tl EXCEPT ![c].file = exact, ![c].pc = "stat"]
                ELSE IF files = <<>>
                THEN Ended(c, NotFoundResponse(tl[c].id, clock), "notfound")
                ELSE [tl EXCEPT ![c].files = files, ![c].i = 1, ![c].pc = "scan"]
    /\ UNCHANGED tcache
    /\ TlFrame

\* lines 354-361, findFileForSession: the first line of the next listed file is
\* read; the stream of a file that is gone fails
TlScan(c) ==
    /\ tl[c].pc = "scan"
    /\ LET f == tl[c].files[tl[c].i]
       IN tl' = IF fs[f] = Null THEN Ended(c, Failure, "raised")
                ELSE IF Len(fs[f].lines) > 0 /\ SlowMatch(fs[f].lines[1], tl[c].id)
                THEN [tl EXCEPT ![c].file = f, ![c].pc = "stat"]
                ELSE IF tl[c].i < Len(tl[c].files) THEN [tl EXCEPT ![c].i = @ + 1]
                ELSE Ended(c, NotFoundResponse(tl[c].id, clock), "notfound")
    /\ UNCHANGED tcache
    /\ TlFrame

\* line 448: fsp.stat(file), not guarded
TlStat(c) ==
    /\ tl[c].pc = "stat"
    /\ LET f == tl[c].file
       IN tl' = IF fs[f] = Null THEN Ended(c, Failure, "raised")
                ELSE [tl EXCEPT ![c].st = Stat(f), ![c].atStat = fs[f].lines,
                                ![c].pc = "readCache"]
    /\ UNCHANGED tcache
    /\ TlFrame

\* lines 450-456: the cache entry is read and served if its fingerprint is the
\* stat's; else the summary is the snapshot's or comes from buildFileIndex
TlReadCache(c) ==
    /\ tl[c].pc = "readCache"
    /\ LET raw == tcache[tl[c].id].final
           cached == readJsonFile(raw)
       IN tl' = IF CacheValid(cached, tl[c].st)
                THEN [Ended(c, FromCache(cached), "cache") EXCEPT
                         ![LastEnded].cachedRaw = raw,
                         ![LastEnded].kept = fs[tl[c].file] # Null,
                         ![LastEnded].atRead = IF fs[tl[c].file] # Null
                                               THEN fs[tl[c].file].lines
                                               ELSE tl[c].atStat]
                ELSE IF tl[c].session # Null
                THEN [tl EXCEPT ![c].cachedRaw = raw, ![c].summary = tl[c].session,
                                ![c].pc = "timeline"]
                ELSE [tl EXCEPT ![c].cachedRaw = raw, ![c].pc = "summary"]
    /\ UNCHANGED tcache
    /\ TlFrame

\* line 456: (await buildFileIndex(file)).summary
TlSummary(c) ==
    /\ tl[c].pc = "summary"
    /\ LET f == tl[c].file
       IN tl' = IF fs[f] = Null THEN Ended(c, Failure, "raised")
                ELSE [tl EXCEPT ![c].summary = buildFileIndex(f, fs[f].lines).summary,
                                ![c].pc = "timeline"]
    /\ UNCHANGED tcache
    /\ TlFrame

\* line 457: buildTimeline(file, summary)
TlTimeline(c) ==
    /\ tl[c].pc = "timeline"
    /\ LET f == tl[c].file
       IN tl' = IF fs[f] = Null THEN Ended(c, Failure, "raised")
                ELSE [tl EXCEPT ![c].built = buildTimeline(tl[c].summary, fs[f].lines),
                                ![c].atRead = fs[f].lines, ![c].pc = "open"]
    /\ UNCHANGED tcache
    /\ TlFrame

\* line 67, fsp.writeFile(tmp): the file is opened for writing, which creates it
\* or empties the one that is there
TlOpen(c) ==
    /\ tl[c].pc = "open"
    /\ tcache' = [tcache EXCEPT ![tl[c].id].tmp = Partial]
    /\ tl' = [tl EXCEPT ![c].fd = "tmp", ![c].pc = "write"]
    /\ TlFrame

\* what a file holds after a document is written from its start: the document,
\* unless a longer one written since the file was emptied sticks out behind it
Written(cur, entry) ==
    IF cur = Partial \/ cur = entry \/ Len(entry.events) >= Len(cur.events)
    THEN entry
    ELSE Partial

\* line 67, fsp.writeFile(tmp): the document is written to the open file, which
\* a rename of another call may have moved to the final path, and closed
TlWrite(c) ==
    /\ tl[c].pc = "write"
    /\ LET id == tl[c].id
           at == tl[c].fd
           entry == CacheEntry(tl[c].built, tl[c].st)
       IN tcache' = IF at = "orphan" THEN tcache
                    ELSE [tcache EXCEPT ![id][at] = Written(@, entry)]
    /\ tl' = [tl EXCEPT ![c].fd = "none", ![c].pc = "rename"]
    /\ TlFrame

\* line 68, fsp.rename(tmp, p): fails when the .tmp file is gone; else the
\* file moves to the final path, with the calls that hold it open; line 460
TlRename(c) ==
    /\ tl[c].pc = "rename"
    /\ LET id == tl[c].id
           others == {d \in TlCalls \ {c} : tl[d].id = id /\ tl[d].pc \in {"write", "rename"}}
           ended == [Ended(c, tl[c].built, "built") EXCEPT
                        ![LastEnded].wrote = tcache[id].tmp,
                        ![LastEnded].alone = (others = {})]
       IN IF tcache[id].tmp = Null
          THEN /\ tl' = Ended(c, Failure, "raised")
               /\ UNCHANGED tcache
          ELSE /\ tcache' = [tcache EXCEPT ![id] = [final |-> @.tmp, tmp |-> Null]]
               /\ tl' = [d \in DOMAIN tl |->
                            IF d \in {c, LastEnded} THEN ended[d]
                            ELSE IF tl[d].id = id /\ tl[d].fd = "tmp"
                            THEN [tl[d] EXCEPT !.fd = "final"]
                            ELSE IF tl[d].id = id /\ tl[d].fd = "final"
                            THEN [tl[d] EXCEPT !.fd = "orphan"]
                            ELSE tl[d]]
    /\ TlFrame

\* the snapshot a process holds in memory after its index was loaded or built
\* over the files below root
LoadedIndex(root, content) ==
    Snapshot(SummarizeAll([id |-> 0, dir |-> root,
                           files |-> SelectSeq(WalkOrder, LAMBDA f : f \in Under(root)),
                           sessions |-> <<>>, tools |-> EmptyMap, daily |-> EmptyMap],
                          content, 1))

\* the log files at the start: the first carries the metadata id abc or b
TlCorpora == {(PathA :> <<m>>) @@ (PathB :> <<LCall>>) : m \in {LMeta, LMetaB}}

TlInit ==
    /\ Idle
    /\ disk = EmptyCache
    /\ pure = Null
    /\ \E content \in TlCorpora, root \in Dirs :
          /\ fs = [f \in Paths |-> [lines |-> content[f], mtimeMs |-> 0]]
          /\ inMemoryIndex = LoadedIndex(root, content)
    /\ tl = [c \in TlCalls \cup {LastEnded} |-> IdleTl]
    /\ tcache = [id \in SessionIds |-> NoEntry]

TlNext ==
    \/ \E c \in TlCalls, id \in SessionIds : TlCall(c, id)
    \/ \E c \in TlCalls : TlList(c)
    \/ \E c \in TlCalls : TlScan(c)
    \/ \E c \in TlCalls : TlStat(c)
    \/ \E c \in TlCalls : TlReadCache(c)
    \/ \E c \in TlCalls : TlSummary(c)
    \/ \E c \in TlCalls : TlTimeline(c)
    \/ \E c \in TlCalls : TlOpen(c)
    \/ \E c \in TlCalls : TlWrite(c)
    \/ \E c \in TlCalls : TlRename(c)
    \/ \E f \in Paths : WriterAppend(f, LUser)
    \/ \E f \in Paths : WriterDelete(f)

TlSpec == TlInit /\ [][TlNext]_vars
IsSnapshot(v) == v # Null /\ v # Failure

\* the callers served by operation o
Served(o) == {c \in Callers : callers[c].via \in {"start", "join"} /\ callers[c].op = o}

\* C1: single flight.  While a load-or-build operation is pending no other one
\* is started: at most one is pending, it is the one inFlight names, every
\* caller that arrived without a snapshot in memory waits for that operation
\* and receives its result, and at most one buildOrUpdateIndex is running.
C1_SingleFlight ==
    /\ Cardinality(DOMAIN ops) <= 1
    /\ Cardinality(DOMAIN builds) <= 1
    /\ \A o \in DOMAIN ops : inFlight = o
    /\ \A c \in Callers :
          callers[c].pc = "waiting" => callers[c].op \in DOMAIN ops
    /\ \A c \in Callers :
          (callers[c].pc = "done" /\ callers[c].via \in {"start", "join"}) =>
              /\ callers[c].op \in DOMAIN opLog
              /\ callers[c].res = opLog[callers[c].op].outcome
              /\ callers[c].res # Null

\* C1 witness: two callers shared one operation and both hold its result
C1_Witness ==
    \E c, d \in Callers :
        /\ callers[c].via = "start" /\ callers[d].via = "join"
        /\ callers[c].op = callers[d].op
        /\ callers[c].pc = "done" /\ callers[d].pc = "done"
        /\ IsSnapshot(callers[c].res) /\ callers[d].res = callers[c].res

\* C2: stale-while-revalidate.  An operation that reads a persisted snapshot of
\* the current version settles with exactly that snapshot at once (its callers
\* never wait for the rebuild), exactly one background rebuild is started, and
\* when the rebuild has succeeded the snapshot in memory is its result.
C2_StaleWhileRevalidate ==
    /\ \A o \in DOMAIN opLog :
          LET e == opLog[o]
          IN (e.path # "pending" /\ e.cached # Null /\ e.cached.version = INDEX_VERSION) =>
                /\ e.path = "stale"
                /\ e.outcome = e.cached
                /\ o \notin DOMAIN ops
                /\ \A c \in Served(o) : callers[c].pc = "done" /\ callers[c].res = e.cached
                /\ bgLog.started = 1
                /\ bgLog.stale = e.cached
                /\ bgLog.result = Null => (o \in DOMAIN builds /\ builds[o].kind = "bg")
    /\ bgLog.started <= 1
    /\ \A id \in DOMAIN builds : builds[id].kind = "bg" => bgLog.started = 1
    /\ IsSnapshot(bgLog.result) =>
          /\ inMemoryIndex = bgLog.result
          /\ last.ok /\ last.kind = "bg" /\ last.snapshot = bgLog.result

\* C2 witness: a caller holds the persisted snapshot, and the rebuild that was
\* started behind it has since replaced the snapshot in memory
C2_Witness ==
    /\ IsSnapshot(bgLog.result)
    /\ inMemoryIndex = bgLog.result
    /\ bgLog.result # bgLog.stale
    /\ \E c \in Callers : callers[c].via = "start" /\ callers[c].res = bgLog.stale

\* C3: when the background rebuild has failed, the snapshot in memory is still
\* the persisted one that was loaded, and no caller has received a failure.
C3_BackgroundFailureSwallowed ==
    bgLog.result = Failure =>
        /\ inMemoryIndex = bgLog.stale
        /\ IsSnapshot(bgLog.stale)
        /\ \A c \in Callers : callers[c].res # Failure

\* C3 witness: the rebuild failed; one caller was served before the failure and
\* another one after it, both with the stale snapshot
C3_Witness ==
    /\ bgLog.result = Failure
    /\ \E c, d \in Callers :
          /\ callers[c].via = "start" /\ callers[c].res = bgLog.stale
          /\ callers[d].via = "memory" /\ callers[d].res = bgLog.stale

\* the step is the call of getIndex by caller c
IsCall(c) == nCalls = c - 1 /\ nCalls' = c

\* C4: a call made while a snapshot is in memory returns exactly that snapshot
\* at once, starts no read of the cache directory, no operation and no build,
\* and changes neither inMemoryIndex nor inFlight nor any file; a rebuild that
\* is running does not delay it.
C4_MemoryHit ==
    [][\A c \in Callers :
          (IsCall(c) /\ inMemoryIndex # Null) =>
              /\ callers'[c].pc = "done"
              /\ callers'[c].res = inMemoryIndex
              /\ UNCHANGED <<inMemoryIndex, inFlight, ops, builds, disk, fs, opLog>>]_vars

\* C4 witness: a caller was served from memory while the background rebuild
\* was still running
C4_Witness ==
    \E c \in Callers :
        /\ callers[c].via = "memory" /\ callers[c].pc = "done"
        /\ callers[c].res = inMemoryIndex
        /\ \E id \in DOMAIN builds : builds[id].kind = "bg"

\* C5: an operation that finds the persisted snapshot missing, unparsable or of
\* another version runs a synchronous rebuild; when it succeeds the callers
\* receive that build's snapshot and it is the snapshot in memory from then on.
\* No caller ever receives a snapshot of another version.
C5_SynchronousRebuild ==
    /\ \A o \in DOMAIN opLog :
          LET e == opLog[o]
          IN (e.path # "pending" /\ (e.cached = Null \/ e.cached.version # INDEX_VERSION)) =>
                /\ e.path = "sync"
                /\ e.outcome = Null =>
                      (o \in DOMAIN builds /\ builds[o].kind = "sync" /\ inFlight = o)
                /\ IsSnapshot(e.outcome) =>
                      /\ last.ok /\ last.id = o /\ last.kind = "sync"
                      /\ e.outcome = last.snapshot
                      /\ inMemoryIndex = e.outcome
                      /\ \A c \in Served(o) : callers[c].res = e.outcome
    /\ \A c \in Callers : IsSnapshot(callers[c].res) => callers[c].res.version = INDEX_VERSION

\* C5 witness: the persisted snapshot had another version; the caller holds the
\* snapshot of the synchronous rebuild, which is the one in memory
C5_Witness ==
    \E c \in Callers :
        /\ callers[c].via = "start" /\ callers[c].pc = "done"
        /\ opLog[callers[c].op].path = "sync"
        /\ opLog[callers[c].op].cached # Null
        /\ IsSnapshot(callers[c].res)
        /\ callers[c].res = inMemoryIndex

(***************************************************************************)
(* Properties of the File Summarizer and the Index Builder.                *)
(***************************************************************************)
\* totals and histogram of a snapshot agree with its sessions
Consistent(snap) ==
    /\ snap.totals.messages = Counts(snap.sessions, "messages")
    /\ snap.totals.toolCalls = Counts(snap.sessions, "toolCalls")
    /\ snap.totals.errors = Counts(snap.sessions, "errors")
    /\ MapSum(snap.tools) = snap.totals.toolCalls

\* C6: aggregate consistency.  In every snapshot buildOrUpdateIndex produces,
\* the totals equal the sums of the per-session counts and the values of the
\* tool histogram add up to totals.toolCalls.
C6_AggregateConsistency == last.ok => Consistent(last.snapshot)

\* the summary buildFileIndex holds after the first k lines of file f
SummaryAfter(f, k) == ScanLines(ScanInit(f), f, SubSeq(fs[f].lines, 1, k)).summary

CountersOf(summary) == <<summary.messages, summary.toolCalls, summary.errors>>

\* C7: a session-metadata record, wherever it stands in a file, leaves the
\* message, tool-call and error counters accumulated before it as they are.
C7_MetaKeepsCounters ==
    \A f \in Paths :
        fs[f] # Null =>
            \A k \in 1..Len(fs[f].lines) :
                fs[f].lines[k].type = "session_meta" =>
                    CountersOf(SummaryAfter(f, k)) = CountersOf(SummaryAfter(f, k - 1))

\* the build that finished last ran right after a successful build, and no log
\* file changed while it ran
AfterGoodBuild == last.ok /\ IsSnapshot(last.prev) /\ last.during = {}

\* C8: idempotence.  A build that follows a successful build with no log file
\* changed since that build started produces the same snapshot except for
\* generatedAt and calls buildFileIndex for no file.
C8_Idempotence ==
    (AfterGoodBuild /\ last.changed = {}) =>
        /\ [last.snapshot EXCEPT !.generatedAt = 0] = [last.prev EXCEPT !.generatedAt = 0]
        /\ last.reread = {}

\* C8 witness: such a second build over both files has finished
C8_Witness ==
    /\ AfterGoodBuild /\ last.changed = {}
    /\ Len(last.snapshot.sessions) = 2
    /\ last.snapshot.generatedAt # last.prev.generatedAt

\* the summaries a snapshot holds for file f
SessionsOf(snap, f) ==
    {snap.sessions[k] : k \in {j \in 1..Len(snap.sessions) : snap.sessions[j].file = f}}

\* the stat of one file in a build decides for buildFileIndex exactly when the
\* manifest has no entry for the file or the entry's fingerprint differs
StatDecides ==
    \A id \in DOMAIN builds :
        (/\ builds[id].pc = "stat"
         /\ id \in DOMAIN builds'
         /\ builds'[id] # builds[id]
         /\ fs[builds[id].files[builds[id].i]] # Null) =>
            LET file == builds[id].files[builds[id].i]
                known == builds[id].manifest.files
            IN (builds'[id].pc = "read") <=>
                  \/ file \notin DOMAIN known
                  \/ known[file].mtimeMs # fs[file].mtimeMs
                  \/ known[file].size # Len(fs[file].lines)

\* after exactly one file was modified between the preceding build and this one,
\* only that file is re-summarized and the other sessions are as they were
OnlyModifiedReread ==
    (/\ AfterGoodBuild
     /\ Cardinality(last.changed) = 1
     /\ last.changedAfter = last.changed
     /\ last.changed \subseteq last.statOk) =>
        /\ last.reread = last.changed
        /\ \A f \in Paths \ last.changed :
              SessionsOf(last.snapshot, f) = SessionsOf(last.prev, f)

\* C9: incrementality.  A file whose stat succeeds is re-summarized if and only
\* if it has no manifest entry or the entry's modification time or size differs
\* from the stat; so after one file was modified the next build re-summarizes
\* that file alone and keeps the other sessions' summaries.
C9_Incrementality == []OnlyModifiedReread /\ [][StatDecides]_vars

\* C9 witness: one of two files was appended to between two builds, the second
\* build re-read it and its summary changed
C9_Witness ==
    /\ AfterGoodBuild
    /\ \E f \in Paths :
          /\ last.changed = {f} /\ last.changedAfter = {f} /\ last.reread = {f}
          /\ SessionsOf(last.snapshot, f) # SessionsOf(last.prev, f)
    /\ Len(last.snapshot.sessions) = 2

\* the persisted manifest the last build read was of another version or directory
ReadForeignManifest ==
    /\ last.seen # Null
    /\ last.seen.version # INDEX_VERSION \/ last.seen.sessionsDir # last.dir

\* C10: a build that reads a manifest of another schema version or another source
\* directory reuses none of its entries: every file it can stat is
\* re-summarized, and the manifest it persists carries the current version and
\* directory and only entries made by this build.
C10_ForeignManifestDiscarded ==
    (last.ok /\ ReadForeignManifest) =>
        /\ last.reread = last.statOk
        /\ last.manifest.version = INDEX_VERSION
        /\ last.manifest.sessionsDir = last.dir
        /\ DOMAIN last.manifest.files \subseteq last.reread

\* C10 witness: the manifest came from a run over another directory and named a
\* file with its current fingerprint; the build re-read both files
C10_Witness ==
    /\ last.ok /\ last.seen # Null
    /\ last.seen.version = INDEX_VERSION /\ last.seen.sessionsDir # last.dir
    /\ last.reread = Paths
    /\ DOMAIN last.manifest.files = Paths

\* the files that contributed a session to a snapshot
FilesOf(snap) == {snap.sessions[k].file : k \in 1..Len(snap.sessions)}

\* C11: after every completed build the key set of the persisted manifest is the
\* set of files that contributed a session to the build's snapshot; no entry is
\* left for a file that vanished, also not for one that vanished between
\* discovery and stat.
C11_ManifestKeysAreSessions ==
    last.ok =>
        /\ DOMAIN last.manifest.files = FilesOf(last.snapshot)
        /\ disk.manifest # Null => DOMAIN disk.manifest.files \cap last.lost = {}

\* the build that finished last had discovered a file that was gone at its stat
\* or at the read of its content, and no other operation of the build failed
LostAFile ==
    /\ last.kind # "none"
    /\ last.lost # {}
    /\ last.pc \notin {"mkdir", "writeIndex"}

\* C12: a file that disappears after discovery, before its stat or between its
\* stat and the read of its content, is skipped: the build completes with a
\* snapshot of the remaining files and no caller receives an error.
C12_VanishedFileSkipped ==
    LostAFile =>
        /\ last.ok
        /\ FilesOf(last.snapshot) = last.statOk \ last.lost
        /\ \A c \in Callers : callers[c].op = last.id => callers[c].res # Failure

(***************************************************************************)
(* Properties of the extractor, the summarizer and the aggregation on      *)
(* drawn files (PureSpec).                                                 *)
(***************************************************************************)
\* the events of all records of a file, in file order, with no cap applied
RECURSIVE AllEvents(_, _)
AllEvents(st, lines) ==
    IF lines = <<>> THEN st.events
    ELSE LET obj == safeJsonParse(Head(lines))
         IN AllEvents(IF obj = Null THEN st ELSE TimelineRecord(st, obj), Tail(lines))

\* C16: truncation.  buildTimeline never returns more than maxEvents events; for
\* a file whose records produce more than maxEvents events it returns truncated
\* = true and exactly the first maxEvents events of the untruncated sequence, in
\* file order.
C16_Truncation ==
    pure.pc = "summarized" =>
        LET all == AllEvents(TimelineInit, pure.lines)
            got == pure.timeline
        IN /\ Len(got.events) <= maxEvents
           /\ Len(all) > maxEvents =>
                 /\ got.truncated
                 /\ got.events = SubSeq(all, 1, maxEvents)

\* C16 witness: a file of more than maxEvents events of several kinds, with a
\* line that is no JSON among them, was extracted and cut
C16_Witness ==
    /\ pure.pc = "summarized"
    /\ Len(AllEvents(TimelineInit, pure.lines)) > maxEvents
    /\ pure.lines[2] = LGarbage
    /\ pure.timeline.truncated
    /\ Len(pure.timeline.events) = maxEvents
    /\ pure.timeline.events[1].kind # pure.timeline.events[2].kind

\* C17: the worked example.  Metadata (id abc) at T0, a user message at T0+1s, a
\* call of shell with call id 1 at T0+2s and its output with metadata.exit_code
\* = 1 at T0+3s are summarized as messages 1, toolCalls 1, errors 1, startedAt
\* T0, endedAt T0+3s, durationSec 3, histogram {shell: 1}, daily key the date
\* of T0.
C17_EndToEndExample ==
    \A t0 \in ExampleStarts :
        (pure.pc = "summarized" /\ pure.lines = Example(t0)) =>
            /\ pure.built.summary.messages = 1
            /\ pure.built.summary.toolCalls = 1
            /\ pure.built.summary.errors = 1
            /\ pure.built.summary.startedAt = t0
            /\ pure.built.summary.endedAt = t0 + 3 * MsPerSec
            /\ pure.built.summary.durationSec = 3
            /\ pure.built.tools = ("shell" :> 1)
            /\ pure.built.dailyKey = t0 \div MsPerDay

\* C17 witness: the example that starts two seconds before midnight was
\* summarized; its last record falls on the next day
C17_Witness ==
    /\ pure.pc = "summarized"
    /\ pure.lines = Example(MsPerDay - 2 * MsPerSec)
    /\ pure.built.summary.id = "abc"
    /\ pure.built.summary.endedAt \div MsPerDay # pure.built.dailyKey

\* the positions of the sessions of a snapshot whose daily key is k
SessionsOn(snap, k) ==
    {j \in 1..Len(snap.sessions) : dayKeyFromIso(snap.sessions[j].startedAt) = k}

\* the sum of one field over the buckets of a snapshot
BucketSum(snap, field) == MapSum([k \in DOMAIN snap.daily |-> snap.daily[k][field]])

\* the sum of one field over the sessions at the given positions
RECURSIVE SumOver(_, _, _)
SumOver(sessions, js, field) ==
    IF js = {} THEN 0
    ELSE LET j == CHOOSE x \in js : TRUE
         IN sessions[j][field] + SumOver(sessions, js \ {j}, field)

\* C18: daily bucketing.  In a snapshot the bucket of day k counts the sessions
\* whose daily key is k and carries the sums of their messages, tool calls and
\* errors; there is a bucket for exactly the days of the sessions, and the
\* buckets add up to the totals.
C18_DailyBucketing ==
    pure.pc = "aggregated" =>
        LET snap == pure.snapshot
        IN /\ DOMAIN snap.daily =
                 {dayKeyFromIso(snap.sessions[j].startedAt) : j \in 1..Len(snap.sessions)}
           /\ \A k \in DOMAIN snap.daily :
                 /\ snap.daily[k].sessions = Cardinality(SessionsOn(snap, k))
                 /\ \A field \in {"messages", "toolCalls", "errors"} :
                       snap.daily[k][field] =
                           SumOver(snap.sessions, SessionsOn(snap, k), field)
           /\ BucketSum(snap, "sessions") = snap.totals.sessions
           /\ \A field \in {"messages", "toolCalls", "errors"} :
                 BucketSum(snap, field) = snap.totals[field]

\* C18 witness: two sessions started on the same date, each with a message or a
\* tool call, make one bucket of two sessions
C18_Witness ==
    /\ pure.pc = "aggregated"
    /\ DOMAIN pure.snapshot.daily = {1}
    /\ pure.snapshot.daily[1].sessions = 2
    /\ pure.snapshot.daily[1].messages = 1
    /\ pure.snapshot.daily[1].toolCalls = 1

(***************************************************************************)
(* Properties of the Snapshot Cache over the life of a process (Spec).     *)
(***************************************************************************)
\* the step is taken by the running process (it is no restart)
SameProcess == restarts' = restarts

\* C25: once a buildOrUpdateIndex has completed successfully in a process, no
\* getIndex call starts another build and the snapshot in memory is never
\* emptied or replaced, whatever happens to the log files; a process sees at
\* most one successful build.
C25_OneSuccessfulBuild ==
    [][(last.ok /\ SameProcess) =>
          /\ inMemoryIndex = last.snapshot
          /\ inMemoryIndex' = inMemoryIndex
          /\ DOMAIN builds = {} /\ DOMAIN builds' = {}
          /\ DOMAIN ops' = {}
          /\ last' = last]_vars

\* C25 witness: after the synchronous rebuild succeeded a log file changed and
\* a later call was served the snapshot of that rebuild from memory
C25_Witness ==
    /\ last.ok /\ last.kind = "sync"
    /\ touched.end # {}
    /\ inMemoryIndex = last.snapshot
    /\ callers[nCalls].via = "memory"
    /\ callers[nCalls].res = last.snapshot
    /\ \E f \in touched.end : fs[f] = Null \/ Len(fs[f].lines) > 1

\* operation o settles in this step
Settles(o) == o \in DOMAIN ops /\ o \notin DOMAIN ops' /\ SameProcess

\* C26: no wedge after a failure.  When the synchronous load-or-build fails,
\* every caller that shares it receives the failure, inFlight is cleared and
\* inMemoryIndex stays empty, and a getIndex call made after that starts a new
\* load-or-build; inFlight is cleared after every load-or-build that succeeds
\* as well: it is set only while the operation it names is pending.
C26_NoWedgeAfterFailure ==
    /\ [](inFlight # NoOp => inFlight \in DOMAIN ops)
    /\ [][\A o \in DOMAIN ops : Settles(o) =>
              /\ inFlight' = NoOp
              /\ \A c \in Served(o) :
                    callers'[c].pc = "done" /\ callers'[c].res = opLog'[o].outcome
              /\ opLog'[o].outcome = Failure =>
                    inMemoryIndex = Null /\ inMemoryIndex' = Null]_vars
    /\ [][\A c \in Callers :
              (IsCall(c) /\ inMemoryIndex = Null /\ DOMAIN ops = {}) =>
                  /\ inFlight' = c
                  /\ c \in DOMAIN ops'
                  /\ callers'[c].via = "start"]_vars

\* C26 witness: the synchronous rebuild failed, its caller received the
\* failure, and the next call has started a new load-or-build
C26_Witness ==
    /\ inMemoryIndex = Null
    /\ callers[1].pc = "done" /\ callers[1].via = "start" /\ callers[1].res = Failure
    /\ opLog[1].path = "sync" /\ opLog[1].outcome = Failure
    /\ callers[2].via = "start" /\ callers[2].op = 2
    /\ inFlight = 2 /\ 2 \in DOMAIN ops

\* the positions of buildOrUpdateIndex before its persistence step (line 312)
BeforePersistence == {"mkdir", "readManifest", "list", "stat", "read"}

\* build id fails in this step
Fails(id) == id \in DOMAIN builds /\ id \notin DOMAIN builds' /\ ~last'.ok /\ SameProcess

\* C27: a buildOrUpdateIndex that fails before its persistence step leaves the
\* persisted manifest and the persisted snapshot as they were when it started;
\* and a build persists its snapshot only when its manifest is persisted, so
\* that a persisted snapshot is never newer than the persisted manifest.
C27_FailedBuildKeepsFiles ==
    /\ [][\A id \in DOMAIN builds :
              (Fails(id) /\ builds[id].pc \in BeforePersistence) =>
                  /\ disk'.manifest = builds[id].before.manifest
                  /\ disk'.index = builds[id].before.index]_vars
    /\ [][disk'.index # disk.index =>
              \E id \in DOMAIN builds :
                  /\ builds[id].pc = "renameIndex"
                  /\ disk'.index = builds[id].snapshot
                  /\ disk.manifest = builds[id].manifest
                  /\ disk'.manifest = disk.manifest]_vars

\* C27 witness: the files a successful build of this release persisted are
\* still in place after the background rebuild of the next process has failed
\* before it wrote anything
C27_Witness ==
    /\ restarts > 0
    /\ last.kind = "bg" /\ ~last.ok /\ last.pc \in BeforePersistence
    /\ disk.index = inMemoryIndex
    /\ CachedUsable(disk.index)
    /\ ManifestReusable(disk.manifest, "d1")
    /\ FilesOf(disk.index) = DOMAIN disk.manifest.files

\* a record is the output of a tool call
IsOutput(line) ==
    /\ line.type = "response_item"
    /\ line.ptype \in {"function_call_output", "custom_tool_call_output"}

\* the output records of a file that report an error: by their text, by a
\* non-zero exit code, or by both
ErrorOutputs(lines) ==
    {k \in 1..Len(lines) :
        /\ IsOutput(lines[k])
        /\ MatchesErrorText(lines[k].output) \/ HasNonZeroExit(lines[k].output)}

\* C21: one output record adds exactly one to the error counter when its text
\* matches the error pattern or it carries a non-zero exit code, also when both
\* hold, and nothing otherwise: a file of tool calls and outputs has as many
\* errors as it has such output records.
C21_OutputErrorCountedOnce ==
    (pure.pc = "summarized" /\ \A k \in 1..Len(pure.lines) : pure.lines[k] \in OutputLines)
        => pure.built.summary.errors = Cardinality(ErrorOutputs(pure.lines))

\* the positions of the records of a file that carry a parseable timestamp
Stamped(lines) ==
    {k \in 1..Len(lines) :
        safeJsonParse(lines[k]) # Null /\ toIso(lines[k].timestamp) # NoTs}

\* the positions of the session-metadata records of a file
Metas(lines) ==
    {k \in 1..Len(lines) : lines[k].type = "session_meta"}

\* the timestamp a metadata record provides: its own, else its payload's
MetaProvided(line) == OrTs(toIso(line.timestamp), toIso(line.ptimestamp))

Least(S) == CHOOSE k \in S : \A j \in S : k <= j
Greatest(S) == CHOOSE k \in S : \A j \in S : k >= j

\* the first timestamp seen in a file, or none
FirstSeen(lines) ==
    IF Stamped(lines) = {} THEN NoTs ELSE toIso(lines[Least(Stamped(lines))].timestamp)

\* the last timestamp seen in a file, or none
LastSeen(lines) ==
    IF Stamped(lines) = {} THEN NoTs ELSE toIso(lines[Greatest(Stamped(lines))].timestamp)

\* C22: after a file is summarized, startedAt is the timestamp the last
\* metadata record provides, if it provides one, else the first timestamp seen
\* in the file; endedAt is the last timestamp seen; durationSec is present
\* exactly when both are and endedAt is not before startedAt, and is then the
\* whole seconds between them, never negative; the daily key is the date of
\* startedAt, and "unknown" when the file has no timestamp at all.
C22_StartEndDuration ==
    pure.pc = "summarized" =>
        LET lines == pure.lines
            s == pure.built.summary
            lastMeta == IF Metas(lines) = {} THEN NoTs
                        ELSE MetaProvided(lines[Greatest(Metas(lines))])
        IN /\ s.startedAt = OrTs(lastMeta, FirstSeen(lines))
           /\ s.endedAt = LastSeen(lines)
           /\ s.durationSec # NoTs <=>
                 (s.startedAt # NoTs /\ s.endedAt # NoTs /\ s.endedAt >= s.startedAt)
           /\ s.durationSec # NoTs =>
                 /\ s.durationSec >= 0
                 /\ s.durationSec * MsPerSec <= s.endedAt - s.startedAt
                 /\ (s.durationSec + 1) * MsPerSec > s.endedAt - s.startedAt
           /\ pure.built.dailyKey = dayKeyFromIso(s.startedAt)
           /\ (Stamped(lines) = {} /\ \A k \in Metas(lines) : MetaProvided(lines[k]) = NoTs)
                 => pure.built.dailyKey = NoTs

\* a record is a tool call
IsCallRecord(line) ==
    /\ line.type = "response_item"
    /\ line.ptype \in {"function_call", "custom_tool_call"}

\* a record makes an event of the timeline
MakesEvent(line) ==
    /\ safeJsonParse(line) # Null
    /\ \/ line.type = "event_msg" /\ line.ptype = "turn_aborted"
       \/ line.type = "response_item" /\ line.ptype = "message"
       \/ IsCallRecord(line)
       \/ IsOutput(line)

\* the positions, in file order, of the records that make an event
EventPositions(lines) ==
    SelectSeq([k \in 1..Len(lines) |-> k], LAMBDA k : MakesEvent(lines[k]))

\* a record carries a call id (a string that is not empty)
HasCallId(line) == line.call_id # NoStr /\ line.call_id # ""

\* the name the most recent call record before position k with the call id of
\* the record at k was recorded under, or none
NameOfCall(lines, k) ==
    LET prev == {j \in 1..(k - 1) :
                    /\ safeJsonParse(lines[j]) # Null
                    /\ IsCallRecord(lines[j])
                    /\ lines[j].call_id = lines[k].call_id}
    IN IF ~HasCallId(lines[k]) \/ prev = {} THEN NoStr
       ELSE LET c == lines[Greatest(prev)]
            IN IF c.name # NoStr THEN c.name ELSE "unknown"

\* every output event without a name of its own is named after its call
OutputsNamed(lines, events) ==
    \A i \in 1..Len(events) :
        LET k == EventPositions(lines)[i]
        IN (IsOutput(lines[k]) /\ lines[k].name = NoStr) =>
               /\ events[i].kind = "tool_output"
               /\ events[i].name = NameOfCall(lines, k)

\* C23: in an extracted timeline an output event without a name of its own
\* carries the tool name of the most recent preceding call record with the same
\* call id in the same file, and no name if there is none; the call-id map is
\* empty at the start of every extraction, so a call of one file names no
\* output of another file or of a later extraction.
C23_OutputNamedByCallId ==
    /\ pure.pc = "summarized" => OutputsNamed(pure.lines, pure.timeline.events)
    /\ pure.pc = "aggregated" =>
          \A f \in Paths : OutputsNamed(pure.content[f], pure.timelines[f].events)

\* C23 witness: the output of the worked example was named after its call, and
\* the same output in a file of its own, extracted next, has no name
C23_Witness ==
    /\ pure.pc = "aggregated"
    /\ pure.content[PathA] = Example(0)
    /\ pure.content[PathB] = <<LOutErr>>
    /\ pure.timelines[PathA].events[3].name = "shell"
    /\ pure.timelines[PathB].events[1].kind = "tool_output"
    /\ pure.timelines[PathB].events[1].name = NoStr

\* C24: in an extracted timeline a message event whose fragments join to the
\* empty text (no fragments, or white space only) has no text; no message event
\* carries the empty string as its text.
C24_EmptyMessageTextAbsent ==
    pure.pc = "summarized" =>
        \A i \in 1..Len(pure.timeline.events) :
            LET e == pure.timeline.events[i]
                l == pure.lines[EventPositions(pure.lines)[i]]
            IN e.kind \in {"user", "assistant", "other"} =>
                   /\ e.text # ""
                   /\ l.content \in {NoStr, "blank"} => e.text = NoStr

(***************************************************************************)
(* Properties of getSessionTimeline and the Timeline Cache (TlSpec).       *)
(***************************************************************************)
\* C13: atomic persistence.  Under every interleaving of getSessionTimeline
\* calls, two for the same session id included, no cache file holds a partially
\* written document at its final path and no call reads one there; the same
\* for the manifest and the index snapshot.
C13_AtomicPersistence ==
    /\ \A id \in SessionIds : tcache[id].final # Partial
    /\ \A c \in DOMAIN tl : tl[c].cachedRaw # Partial
    /\ disk.manifest # Partial /\ disk.index # Partial

\* the response of a call that found no file
IsNotFound(res) ==
    /\ res # Failure
    /\ res.summary.errors = 1
    /\ res.truncated = FALSE
    /\ Len(res.events) = 1
    /\ res.events[1].kind = "error"

\* C14: missing session id.  A call whose id matches no session of the snapshot,
\* no file name stem and no first-line metadata id returns, and does not raise,
\* a response with summary.errors = 1, truncated = false and exactly one event,
\* of kind error; it writes nothing to the timeline cache.
C14_MissingSessionId ==
    LET e == tl[LastEnded]
    IN (e.pc = "ended" /\ e.nomatch) =>
          /\ IsNotFound(e.res)
          /\ tcache[e.id] = NoEntry

\* the contents an append-only file had while it grew from one to the other
Between(from, to) ==
    {SubSeq(to, 1, n) : n \in Len(from)..Len(to)} \cup {from}

StaleEntryReplaced ==
    LET e == tl[LastEnded]
    IN /\ e.pc = "ended" /\ e.via = "built" /\ e.alone
       /\ e.cachedRaw # Null /\ e.cachedRaw # Partial
       /\ Len(e.res.events) > Len(e.cachedRaw.events)
       /\ tcache[e.id].final = CacheEntry(e.res, e.st)

\* C19: session-to-file resolution.  When a log file's name stem equals the
\* requested id, that file is the one the call uses, also when another file
\* carries the id in its metadata record.
C19_StemPreferred ==
    \A c \in DOMAIN tl :
        tl[c].file # NoStr =>
            \A f \in Paths :
                (fs[f] # Null /\ basename(f) = tl[c].id) => tl[c].file = f

\* the positions of a call inside writeJsonFile
Writing == {"open", "write", "rename"}

\* C28: two concurrent calls for the same session id that both miss the cache
\* both return a complete timeline and neither raises; when both have ended
\* the cache file holds one complete entry.
C28_ConcurrentMissesBothReturn ==
    LET e == tl[LastEnded]
        others == {d \in TlCalls : tl[d].id = e.id /\ tl[d].pc \in Writing}
    IN (e.pc = "ended" /\ e.at \in Writing) =>
           /\ e.res # Failure
           /\ e.res = e.built
           /\ others = {} =>
                 /\ tcache[e.id].final # Null
                 /\ tcache[e.id].final # Partial
                 /\ tcache[e.id].tmp = Null

\* C29: in a response built for a resolved file the summary and the events
\* describe the same version of the file: also when the file has grown since
\* the snapshot in memory was built, the counts and endedAt of the returned
\* summary are those of the content the returned events were extracted from.
C29_SummaryMatchesEvents ==
    LET e == tl[LastEnded]
        same == buildFileIndex(e.file, e.atRead).summary
    IN (e.pc = "ended" /\ e.via = "built") =>
           /\ e.res.events = buildTimeline(Null, e.atRead).events
           /\ e.res.summary.messages = same.messages
           /\ e.res.summary.toolCalls = same.toolCalls
           /\ e.res.summary.errors = same.errors
           /\ e.res.summary.endedAt = same.endedAt

\* C20: for an id whose log file does not exist when the call is made, also one
\* the snapshot in memory still lists, the call returns the response for a
\* missing session and does not raise.
C20_MissingFileNeverRaises ==
    LET e == tl[LastEnded]
    IN (e.pc = "ended" /\ e.gone) => IsNotFound(e.res)
====
